---- MODULE Spec2Model ----
(***************************************************************************)
(* Maker-only volume bot (loss-prevention variant volume_bot_maker_only_v3 *)
(* and direction-switching variant shorter): price oracle, order lifecycle *)
(* of a buy / sell leg, and the exchange gateway the legs talk to.         *)
(*                                                                         *)
(* Units.  A price is an integer number of 1e-4 dollar, so 0.01 dollar     *)
(* (one tick) is 100.  A quantity is an integer number of 1e-4 contract.   *)
(* A P&L (price difference times quantity) is therefore in 1e-8 dollar.    *)
(* Time is in whole seconds.                                               *)
(***************************************************************************)
EXTENDS Integers, Sequences, FiniteSets, TLC

VARIABLES
    variant,            \* "v3" (volume_bot_maker_only_v3.py) or "shorter" (shorter.py)
    pc,                 \* position of the single thread of control
    ret_to,             \* where the running leg returns to
    \* ---- exchange (gateway side) ----
    orders,             \* order id -> "none" | "open" | "filled" | "cancelled"
    \* ---- leg locals (place_maker_buy_order / place_maker_sell_order) ----
    quantity,
    entry_price,        \* buy_price / entry_price argument of a sell leg
    is_short,           \* is_short argument of shorter.place_maker_sell_order
    best_bid,
    best_ask,
    current_price,
    adjustment_count,
    order_id,
    elapsed,            \* int(time.time() - order_start_time), sampled at the poll
    since_last_adj,     \* int(time.time() - last_adjustment), sampled at the poll
    since_start,        \* time.time() - order_start_time, now
    since_adj,          \* time.time() - last_adjustment, now
    leg_result,         \* the tuple the leg returned
    \* ---- trend tracker ----
    price_history,
    consecutive_losses, \* MarketTrendTracker.consecutive_losses (v3)
    current_direction,  \* MarketDirectionTracker.current_direction (shorter)
    \* ---- observation of the run (history) ----
    last_event,         \* the last gateway outcome seen by the leg
    cancel_target,      \* the order a cancel was attempted on since the last placement
    limit_price,        \* the price the order order_id names was submitted at
    \* ---- price oracle local ----
    orderbook,          \* the snapshot get_robust_market_prices holds during a call
    \* ---- calls of the pure helpers ----
    filter_args,        \* arguments of a filter_outlier_prices call
    filter_result,      \* the list filter_outlier_prices returned
    downtrend,          \* what is_downtrend() returned
    \* ---- cycle locals (run_trading_cycle / run_long_cycle / run_short_cycle) ----
    balance_before,     \* balance read before the opening leg, 0 when the read failed
    position_check,     \* outcome of the position query after the opening leg
    \* ---- the cycle now run or last run, as the statistics and main saw it ----
    cycle_outcome,      \* "none" | "running" | "completed" | "failed"
    failed_at,          \* where a failed cycle gave up
    failed_buys,        \* increments of stats.failed_buys made by this cycle
    failed_sells,       \* increments of stats.failed_sells made by this cycle
    cycle_pnl,          \* pnl handed to stats.add_cycle
    profitable_cycles,  \* increments of stats.profitable_cycles made by this cycle
    losing_cycles,      \* increments of stats.losing_cycles made by this cycle
    \* ---- further counters of TradingStats: counted from the start of the cycle
    \* ---- in a session with legs, from the start of the session in a tally ----
    cycle_details,      \* entries appended to stats.cycle_details
    completed_cycles,   \* stats.completed_cycles (v3)
    long_cycles,        \* stats.long_cycles (shorter)
    short_cycles,       \* stats.short_cycles (shorter)
    direction_flips,    \* stats.direction_flips (shorter)
    balance_delta,      \* the account's balance after the closing leg minus before the opening leg
    recorded,           \* calls of the tracker's record_cycle_result for this cycle
    loss_streak,        \* completed cycles in a row with cycle_pnl below -0.50 since the last cooldown
    recap_printed       \* stats.print_recap has run

legVars == <<quantity, entry_price, is_short, best_bid, best_ask, current_price,
             adjustment_count, order_id, elapsed, since_last_adj, since_start,
             since_adj, leg_result>>
trackerVars == <<price_history, consecutive_losses, current_direction>>
histVars == <<last_event, cancel_target, limit_price>>
cycleVars == <<balance_before, position_check>>
countVars == <<cycle_details, completed_cycles, long_cycles, short_cycles, direction_flips>>
reportVars == <<cycle_outcome, failed_at, failed_buys, failed_sells, cycle_pnl,
                profitable_cycles, losing_cycles, countVars,
                balance_delta, recorded, loss_streak, recap_printed>>
localVars == <<orderbook, filter_args, filter_result, downtrend>>
sessionVars == <<localVars, cycleVars, reportVars>>
vars == <<variant, pc, ret_to, orders, legVars, trackerVars, histVars, sessionVars>>

-----------------------------------------------------------------------------
(* Bounds of the model *)

MaxOrders == 2          \* order ids the exchange hands out before rejecting
MaxAdjust == 7          \* adjustment_count saturates here ("MaxAdjust or more")
MaxOverrun == 1         \* clocks saturate this far past the deadline they are compared with
ExactWindow == 66       \* seconds of a leg's wait followed sleep by sleep
Stall == 1194           \* extra seconds a stalled sleep takes
MaxPrices == 4      \* longest list handed to filter_outlier_prices
MaxHistory == 6     \* most price points the tracker holds
MaxCycles == 5      \* cycles of a tally (completed, or failed with a counter)
MaxStreak == 3          \* loss_streak saturates here ("MaxStreak or more")

(* Program constants *)

tick_size == 100
max_wait_time == 1200
buy_adjustment_interval == 60
sell_adjustment_interval == 30
QUANTITY_V3 == 4000
QUANTITY_SHORTER == 6

None == 0 - 1
Truthy(x) == x # None /\ x # 0

Min(a, b) == IF a <= b THEN a ELSE b
Max(a, b) == IF a >= b THEN a ELSE b
Abs(a) == IF a >= 0 THEN a ELSE 0 - a

-----------------------------------------------------------------------------
(* Price oracle *)

RECURSIVE SumSeq(_)
SumSeq(s) == IF s = <<>> THEN 0 ELSE Head(s) + SumSeq(Tail(s))

Take(s, n) == SubSeq(s, 1, Min(n, Len(s)))

RECURSIVE InsertSorted(_, _)
InsertSorted(x, s) ==
    IF s = <<>> THEN <<x>>
    ELSE IF x <= Head(s) THEN <<x>> \o s
    ELSE <<Head(s)>> \o InsertSorted(x, Tail(s))

RECURSIVE Sorted(_)
Sorted(s) == IF s = <<>> THEN <<>> ELSE InsertSorted(Head(s), Sorted(Tail(s)))

\* statistics.median of a non-empty list (the mean of the two middle values
\* of an even-length list, rounded down to the price unit)
median(s) ==
    LET t == Sorted(s)
        n == Len(t)
    IN  IF n % 2 = 1 THEN t[(n + 1) \div 2]
        ELSE (t[n \div 2] + t[n \div 2 + 1]) \div 2

\* filter_outlier_prices without its last line: the list may come back empty
filter_without_fallback(prices, max_deviation_permille) ==
    IF Len(prices) <= 2 THEN prices
    ELSE SelectSeq(prices, LAMBDA p :
             Abs(p - median(prices)) * 1000 <= median(prices) * max_deviation_permille)

filter_outlier_prices(prices, max_deviation_permille) ==
    IF Len(prices) <= 2 THEN prices
    ELSE LET median_price == median(prices)
             \* deviation <= median_price * (percent / 100)
             keep(p) == Abs(p - median_price) * 1000 <= median_price * max_deviation_permille
             filtered == SelectSeq(prices, keep)
         IN  IF filtered # <<>> THEN filtered ELSE <<prices[1]>>

\* what get_orderbook gives: the book, or an exception
GatewayError == [error |-> TRUE]
Snapshot(b) == [error |-> FALSE, bid |-> b.bid, ask |-> b.ask]

LevelPrices(levels) == [i \in 1..Len(levels) |-> levels[i][1]]
LevelSizes(levels) == [i \in 1..Len(levels) |-> levels[i][2]]
WeightedNum(p, s) == SumSeq([i \in 1..Len(p) |-> p[i] * s[i]])

\* best price of one side after the 1% check against the weighted average
SideBest(simple, wnum, wden) ==
    LET weighted == IF wden = 0 THEN simple ELSE wnum \div wden
    IN  IF Truthy(simple) /\ Truthy(weighted)
        THEN IF Abs(simple * wden - wnum) * 100 > wnum THEN weighted ELSE simple
        ELSE simple

FallbackMedian(prices) ==
    IF Len(prices) >= 3 THEN median(Take(prices, 5))
    ELSE IF Len(prices) > 1 THEN prices[2] ELSE prices[1]

\* get_robust_market_prices: <<best_bid, best_ask>>, <<None, None>> on any exception
get_robust_market_prices(book) ==
    IF book.error THEN <<None, None>>
    ELSE
    LET bid_prices == LevelPrices(Take(book.bid, 10))
        bid_sizes  == LevelSizes(Take(book.bid, 10))
        ask_prices == LevelPrices(Take(book.ask, 10))
        ask_sizes  == LevelSizes(Take(book.ask, 10))
        best_bid_simple == IF bid_prices # <<>> THEN bid_prices[1] ELSE None
        best_ask_simple == IF ask_prices # <<>> THEN ask_prices[1] ELSE None
        top_bids == Take(bid_prices, 3)
        top_bid_sizes == Take(bid_sizes, 3)
        top_asks == Take(ask_prices, 3)
        top_ask_sizes == Take(ask_sizes, 3)
        total_bid_size == SumSeq(top_bid_sizes)
        total_ask_size == SumSeq(top_ask_sizes)
        \* sum(...) / total raises ZeroDivisionError on a side whose sizes are all zero
        zero_division == \/ (top_bids # <<>> /\ total_bid_size = 0)
                         \/ (top_asks # <<>> /\ total_ask_size = 0)
        bid_num == WeightedNum(top_bids, top_bid_sizes)
        ask_num == WeightedNum(top_asks, top_ask_sizes)
        weighted_bid == IF top_bids # <<>> THEN bid_num \div total_bid_size ELSE best_bid_simple
        weighted_ask == IF top_asks # <<>> THEN ask_num \div total_ask_size ELSE best_ask_simple
        bid1 == SideBest(best_bid_simple, bid_num, total_bid_size)
        ask1 == SideBest(best_ask_simple, ask_num, total_ask_size)
    IN  IF zero_division THEN <<None, None>>
        ELSE IF Truthy(bid1) /\ Truthy(ask1) /\ bid1 >= ask1
             THEN IF weighted_bid >= weighted_ask
                  THEN <<FallbackMedian(bid_prices), FallbackMedian(ask_prices)>>
                  ELSE <<weighted_bid, weighted_ask>>
             ELSE <<bid1, ask1>>

-----------------------------------------------------------------------------
(* Trend tracker: price history *)

\* add_price_point; only the five most recent points are kept, the ones is_downtrend reads
add_price_point(history, price) ==
    LET h == Append(history, price)
    IN  IF Len(h) > 5 THEN Tail(h) ELSE h

\* a tracker that takes a repeated price for a falling one
downtrend_or_flat(history) ==
    /\ Len(history) >= 3
    /\ \A i \in Max(1, Len(history) - 4) + 1..Len(history) : history[i] <= history[i - 1]

\* v3 MarketTrendTracker.is_downtrend
is_downtrend(history) ==
    LET recent_prices == SubSeq(history, Max(1, Len(history) - 4), Len(history))
        downtrend_count == Cardinality({i \in 2..Len(recent_prices) :
                                           recent_prices[i] < recent_prices[i - 1]})
    IN  /\ Len(history) >= 3
        /\ downtrend_count >= Len(recent_prices) - 1

-----------------------------------------------------------------------------
(* Pricing of a leg's orders *)

Dollar == 10000 * 10000     \* one dollar of P&L (price unit times quantity unit)

\* a first buy order that takes no account of the trend
buy_price_ignoring_trend(bid, falling) == bid - tick_size * 20

\* first buy order: below the best bid, further below in a downtrend
buy_initial_price(bid, falling) ==
    IF falling THEN bid - tick_size * 30 ELSE bid - tick_size * 20

\* replacement buy order, by adjustment count
buy_adjust_price(count, bid) ==
    IF count <= 3 THEN bid - Max(2000 - count * 500, 500)
    ELSE IF count <= 6 THEN bid - 100
    ELSE bid

potential_pnl(short, entry, bid, ask, qty) ==
    IF short THEN (entry - bid) * qty ELSE (ask - entry) * qty

\* first sell order, by potential P&L band
sell_initial_price(pnl, ask, entry) ==
    IF pnl >= 3 * Dollar THEN ask + 15000
    ELSE IF pnl >= (3 * Dollar) \div 2 THEN ask + 8000
    ELSE IF pnl >= Dollar \div 2 THEN ask + 3000
    ELSE IF pnl >= 0 - Dollar \div 5 THEN Max(ask + 2000, entry + 1000)
    ELSE IF pnl >= 0 - Dollar THEN ask + 1000
    ELSE ask + 500

\* the band schedule alone, as a replacement would be priced were there no
\* forced exit
sell_adjust_price_by_band(waited, pnl, count, ask) ==
    IF pnl >= 3 * Dollar THEN ask + Max(12000 - count * 1500, 5000)
    ELSE IF pnl >= (3 * Dollar) \div 2 THEN ask + Max(6000 - count * 1000, 3000)
    ELSE IF pnl >= Dollar \div 2 THEN ask + Max(3000 - count * 500, 1500)
    ELSE IF pnl >= 0 THEN ask + Max(1500 - count * 300, 500)
    ELSE IF pnl >= 0 - Dollar THEN ask + (IF count <= 3 THEN 1000 - count * 200 ELSE 200)
    ELSE ask + 100

\* a forced exit priced at the best ask itself
sell_forced_exit_at_ask(waited, pnl, count, ask) ==
    IF waited >= max_wait_time THEN ask
    ELSE sell_adjust_price_by_band(waited, pnl, count, ask)

\* replacement sell order: forced exit first, then the potential P&L bands
sell_adjust_price(waited, pnl, count, ask) ==
    IF waited >= max_wait_time THEN ask + 100
    ELSE IF pnl >= 3 * Dollar THEN ask + Max(12000 - count * 1500, 5000)
    ELSE IF pnl >= (3 * Dollar) \div 2 THEN ask + Max(6000 - count * 1000, 3000)
    ELSE IF pnl >= Dollar \div 2 THEN ask + Max(3000 - count * 500, 1500)
    ELSE IF pnl >= 0 THEN ask + Max(1500 - count * 300, 500)
    ELSE IF pnl >= 0 - Dollar THEN ask + (IF count <= 3 THEN 1000 - count * 200 ELSE 200)
    ELSE ask + 100

\* the poll's "time to adjust?" test of each leg
buy_time_to_adjust(since_adj_s) == since_adj_s >= buy_adjustment_interval

sell_time_to_adjust(v, since_adj_s, elapsed_s) ==
    IF v = "v3" THEN since_adj_s >= sell_adjustment_interval
    ELSE since_adj_s >= sell_adjustment_interval \/ elapsed_s >= max_wait_time

-----------------------------------------------------------------------------------------------------------------------------------------------------
(* Exchange gateway *)

\* order books the exchange may show when asked
Level(p) == <<p, 1>>
NormalBook == [bid |-> <<Level(1000000), Level(999900), Level(999800)>>,
               ask |-> <<Level(1000200), Level(1000300), Level(1000400)>>]
AskEmptyBook == [bid |-> NormalBook.bid, ask |-> <<>>]
BidEmptyBook == [bid |-> <<>>, ask |-> NormalBook.ask]
Books == {NormalBook, AskEmptyBook, BidEmptyBook}

\* what a get_orderbook call may return
get_orderbook == {Snapshot(b) : b \in Books} \cup {GatewayError}

\* what get_robust_market_prices may return when it calls get_orderbook
fresh_prices == {get_robust_market_prices(ob) : ob \in get_orderbook}

OrderIds == 1..MaxOrders
NoOrders == [o \in OrderIds |-> "none"]

CanPlace == \E o \in OrderIds : orders[o] = "none"
FreshId == CHOOSE o \in OrderIds : orders[o] = "none" /\ \A j \in 1..(o - 1) : orders[j] # "none"

\* the exchange after place_limit_order accepted a new order; a cancelled
\* order the leg no longer refers to is forgotten
Placed(os, old, new) ==
    [o \in OrderIds |-> IF o = new THEN "open"
                        ELSE IF o = old /\ os[o] = "cancelled" THEN "none"
                        ELSE os[o]]

\* cancel_order: a reply "ok" cancels an order that is still open; a reply
\* "error" (raised, swallowed by the leg) leaves the exchange as it is
Cancelled(os, o, reply) ==
    IF reply = "ok" /\ os[o] = "open" THEN [os EXCEPT ![o] = "cancelled"] ELSE os

\* The surroundings a specification runs the bot in: the replies cancel_order
\* gives, what get_order_details may answer besides the order's status, how
\* many seconds of a leg's wait are followed sleep by sleep (window), and
\* whether sleeps past the deadline may be on time (late).
HarshEnv == [cancel_order |-> {"ok", "error"}, get_order_details |-> {"error"},
             window |-> ExactWindow, late |-> TRUE]
MildEnv == [cancel_order |-> {"ok"}, get_order_details |-> {},
            window |-> 0, late |-> FALSE]

\* The leg's two clocks saturate: StartCap stands for "max_wait_time or more",
\* an adjustment cap for "the adjustment interval or more".
StartCap == max_wait_time + MaxOverrun
BuyAdjCap == buy_adjustment_interval + MaxOverrun
SellAdjCap == sell_adjustment_interval + MaxOverrun
Advance(t, d, cap) == Min(t + d, cap)

\* How long time.sleep(n) may take when the leg has waited t seconds: n, or
\* n + Stall when the host stalls.  Between the window and the deadline only
\* the stalled sleep is followed.
Slept(env, t, n) ==
    (IF t + n <= env.window \/ (env.late /\ t >= max_wait_time) THEN {n} ELSE {})
    \cup {n + Stall}

Failure == <<FALSE, 0, None, 0>>
NoResult == <<>>

\* no snapshot is held outside a get_robust_market_prices call
NoBook == [error |-> FALSE, bid |-> <<>>, ask |-> <<>>]

\* filter_outlier_prices has not been called
NoArgs == [prices |-> <<>>, max_deviation_permille |-> 20]

\* no helper call is under way
NoCall ==
    /\ orderbook = NoBook
    /\ filter_args = NoArgs /\ filter_result = <<>>
    /\ downtrend = FALSE

\* before the first cycle of a session
NoSession ==
    /\ NoCall
    /\ balance_before = 0 /\ position_check = "none"
    /\ cycle_outcome = "none" /\ failed_at = "none"
    /\ failed_buys = 0 /\ failed_sells = 0
    /\ cycle_pnl = 0 /\ balance_delta = 0 /\ recorded = 0
    /\ profitable_cycles = 0 /\ losing_cycles = 0
    /\ cycle_details = 0 /\ completed_cycles = 0
    /\ long_cycles = 0 /\ short_cycles = 0 /\ direction_flips = 0
    /\ loss_streak = 0
    /\ recap_printed = FALSE

-----------------------------------------------------------------------------
(* place_maker_buy_order (both variants) *)

\* outcome of quoting, pricing and placing: the quote has no bid, pricing
\* raised TypeError, the gateway accepted the order, or it rejected it
LegEvent(bid, priced, accepted) ==
    IF ~Truthy(bid) THEN "no_quote"
    ELSE IF ~priced THEN "raised"
    ELSE IF accepted THEN "placed"
    ELSE "rejected"

\* a leg whose first place_limit_order is not guarded: a rejection raises
open_exit_raises(event, poll_pc, ret) ==
    IF event = "placed" THEN poll_pc
    ELSE IF event \in {"raised", "rejected"} THEN "crashed"
    ELSE ret

\* where the leg goes after its first quote and placement
open_exit(event, poll_pc, ret) ==
    IF event = "placed" THEN poll_pc
    ELSE IF event = "raised" THEN "crashed"
    ELSE ret

\* the start of a leg: first quote, first price, first placement
leg_open(here, poll_pc, event, bid, ask, history, price) ==
    /\ pc = here
    /\ best_bid' = bid
    /\ best_ask' = ask
    /\ last_event' = event
    /\ price_history' = IF event = "no_quote" THEN price_history ELSE history
    /\ current_price' = IF event \in {"placed", "rejected"} THEN price ELSE None
    /\ order_id' = IF event = "placed" THEN 1 ELSE None
    /\ orders' = IF event = "placed" THEN [NoOrders EXCEPT ![1] = "open"] ELSE NoOrders
    /\ leg_result' = IF event \in {"no_quote", "rejected"} THEN Failure ELSE NoResult
    /\ pc' = open_exit(event, poll_pc, ret_to)
    /\ adjustment_count' = 0
    /\ elapsed' = 0 /\ since_last_adj' = 0 /\ since_start' = 0 /\ since_adj' = 0
    /\ cancel_target' = None
    /\ limit_price' = IF event = "placed" THEN price ELSE None
    /\ UNCHANGED <<variant, ret_to, quantity, entry_price, is_short,
                   consecutive_losses, current_direction, sessionVars>>

buy_open ==
    \E quote \in fresh_prices, accepted \in BOOLEAN :
        LET bid == quote[1]
            ask == quote[2]
            history == add_price_point(price_history, bid)
        IN  \* best_ask - best_bid raises TypeError when only the ask side is empty
            leg_open("buy_open", "buy_poll", LegEvent(bid, ask # None, accepted),
                     bid, ask, history, buy_initial_price(bid, is_downtrend(history)))

buy_due(since_adj_s, elapsed_s) == buy_time_to_adjust(since_adj_s)

sell_due(since_adj_s, elapsed_s) == sell_time_to_adjust(variant, since_adj_s, elapsed_s)

\* "Time to adjust?" of the leg whose wait loop is at here
time_to_adjust(here, since_adj_s, elapsed_s) ==
    IF here = "sell_poll" THEN sell_due(since_adj_s, elapsed_s)
    ELSE buy_due(since_adj_s, elapsed_s)

\* one turn of the wait loop up to "time to adjust?": sleep, status query, decision
leg_poll(env, here, cancel_pc, cap) ==
    /\ pc = here
    /\ \E d \in Slept(env, since_start, 5) :
       LET s == Advance(since_start, d, StartCap)
           a == Advance(since_adj, d, cap)
       IN  /\ since_start' = s /\ elapsed' = s
           /\ since_adj' = a /\ since_last_adj' = a
           /\ \E reply \in {orders[order_id]} \cup env.get_order_details :
                IF reply = "filled"
                THEN /\ leg_result' = <<TRUE, current_price, order_id, adjustment_count>>
                     /\ pc' = ret_to
                     /\ last_event' = "filled"
                     /\ UNCHANGED adjustment_count
                ELSE /\ last_event' = IF reply = "error" THEN "status_error" ELSE "unfilled"
                     /\ UNCHANGED leg_result
                     /\ IF time_to_adjust(here, a, s)
                        THEN /\ adjustment_count' = Min(adjustment_count + 1, MaxAdjust)
                             /\ pc' = cancel_pc
                        ELSE /\ pc' = here
                             /\ UNCHANGED adjustment_count
    /\ UNCHANGED <<variant, ret_to, orders, quantity, entry_price, is_short,
                   best_bid, best_ask, current_price, order_id, trackerVars,
                   cancel_target, limit_price, sessionVars>>

buy_poll(env) == leg_poll(env, "buy_poll", "buy_cancel", BuyAdjCap)

\* a leg that goes on to the re-quote without calling cancel_order
leg_cancel_skipped(env, here, next, cap) ==
    /\ pc = here
    /\ pc' = next
    /\ UNCHANGED <<variant, ret_to, orders, legVars, trackerVars, histVars, sessionVars>>

\* cancel_order on the resting order; an exception is swallowed
leg_cancel(env, here, next, cap) ==
    /\ pc = here
    /\ \E reply \in env.cancel_order :
         /\ orders' = Cancelled(orders, order_id, reply)
         /\ last_event' = IF reply = "ok" THEN "cancel_ok" ELSE "cancel_error"
         \* time.sleep(1) follows a cancel that did not raise
         /\ since_start' = IF reply = "ok" THEN Advance(since_start, 1, StartCap) ELSE since_start
         /\ since_adj' = IF reply = "ok" THEN Advance(since_adj, 1, cap) ELSE since_adj
    /\ cancel_target' = order_id
    /\ pc' = next
    /\ UNCHANGED <<variant, ret_to, quantity, entry_price, is_short, best_bid,
                   best_ask, current_price, adjustment_count, order_id, elapsed,
                   since_last_adj, leg_result, trackerVars, limit_price, sessionVars>>

buy_cancel(env) == leg_cancel(env, "buy_cancel", "buy_adjust", BuyAdjCap)

\* a leg that gives up when its re-quote fails or its replacement is rejected
adjust_exit_aborts(event, poll_pc, ret) ==
    IF event = "raised" THEN "crashed"
    ELSE IF event = "placed" THEN poll_pc
    ELSE ret

\* where the leg goes after a re-quote: "continue" back to the poll, unless
\* pricing raised
adjust_exit(event, poll_pc, ret) ==
    IF event = "raised" THEN "crashed" ELSE poll_pc

\* what a re-quote leaves behind, by its outcome
Requoted(event, bid, ask, history, price, poll_pc, cap) ==
    /\ best_bid' = bid
    /\ best_ask' = ask
    /\ last_event' = event
    /\ price_history' = IF event = "no_quote" THEN price_history ELSE history
    /\ current_price' = IF event \in {"placed", "rejected"} THEN price ELSE current_price
    /\ pc' = adjust_exit(event, poll_pc, ret_to)
    /\ IF event = "placed"
       THEN /\ order_id' = FreshId
            /\ orders' = Placed(orders, order_id, FreshId)
            /\ since_adj' = 0
            /\ cancel_target' = None
            /\ limit_price' = price
            /\ UNCHANGED since_start
       ELSE /\ UNCHANGED <<order_id, orders, cancel_target, limit_price>>
            \* time.sleep(5) before "continue"
            /\ since_start' = IF event = "raised" THEN since_start
                              ELSE Advance(since_start, 5, StartCap)
            /\ since_adj' = IF event = "raised" THEN since_adj ELSE Advance(since_adj, 5, cap)
    /\ UNCHANGED <<variant, ret_to, quantity, entry_price, is_short,
                   adjustment_count, elapsed, since_last_adj, leg_result,
                   consecutive_losses, current_direction, sessionVars>>

\* fresh quote, new price by adjustment count, replacement order
buy_adjust ==
    /\ pc = "buy_adjust"
    /\ \E quote \in fresh_prices, accepted \in BOOLEAN :
         LET bid == quote[1]
             ask == quote[2]
         IN  \* the ":.2f" of best_ask raises TypeError when only the ask side is empty
             Requoted(LegEvent(bid, ask # None, accepted /\ CanPlace), bid, ask,
                      add_price_point(price_history, bid),
                      buy_adjust_price(adjustment_count, bid), "buy_poll", BuyAdjCap)

-----------------------------------------------------------------------------
(* place_maker_sell_order (both variants) *)

sell_open ==
    \E quote \in fresh_prices, accepted \in BOOLEAN :
        LET bid == quote[1]
            ask == quote[2]
            pnl == potential_pnl(is_short, entry_price, bid, ask, quantity)
            \* the P&L arithmetic, or the ":.2f" of best_ask, raises TypeError
            \* when only the ask side is empty or no entry price was passed
            priced == ask # None /\ entry_price # None
        IN  leg_open("sell_open", "sell_poll", LegEvent(bid, priced, accepted),
                     bid, ask, add_price_point(price_history, ask),
                     sell_initial_price(pnl, ask, entry_price))

sell_poll(env) == leg_poll(env, "sell_poll", "sell_cancel", SellAdjCap)

sell_cancel(env) == leg_cancel(env, "sell_cancel", "sell_adjust", SellAdjCap)

sell_adjust ==
    /\ pc = "sell_adjust"
    /\ \E quote \in fresh_prices, accepted \in BOOLEAN :
         LET bid == quote[1]
             ask == quote[2]
             pnl == potential_pnl(is_short, entry_price, bid, ask, quantity)
             priced == ask # None /\ entry_price # None
         IN  Requoted(LegEvent(bid, priced, accepted /\ CanPlace), bid, ask,
                      add_price_point(price_history, ask),
                      sell_adjust_price(elapsed, pnl, adjustment_count, ask),
                      "sell_poll", SellAdjCap)

-----------------------------------------------------------------------------
(* The exchange *)

LegPcs == {"buy_poll", "buy_cancel", "buy_adjust", "sell_poll", "sell_cancel", "sell_adjust"}

\* a resting order of the running leg is matched
Fill ==
    /\ pc \in LegPcs
    /\ \E o \in OrderIds :
         /\ orders[o] = "open"
         /\ orders' = [orders EXCEPT ![o] = "filled"]
    /\ UNCHANGED <<variant, pc, ret_to, legVars, trackerVars, histVars, sessionVars>>

-----------------------------------------------------------------------------
(* One leg, called with arguments drawn from small sets *)

\* entry prices that put the potential P&L at the book's ask in each band
EntryPrices == {920000, 950000, 980000, 1000000, 1001000, 1010000, 1040000}

\* price histories the tracker may hold when a leg starts: five equal points,
\* or four falling points above the book
Steady(p) == <<p, p, p, p, p>>
Falling == <<1000400, 1000300, 1000200, 1000100>>

\* <<variant, first pc, entry_price, is_short, price_history>> of a leg call:
\* a buy leg takes no entry price; a sell leg that opens a short is given the
\* ask just read
LegCalls ==
    ({"v3", "shorter"} \X {"buy_open"} \X {None} \X {FALSE}
        \X {Steady(NormalBook.bid[1][1]), Falling})
    \cup ({"v3", "shorter"} \X {"sell_open"} \X EntryPrices \X {FALSE}
        \X {Steady(NormalBook.ask[1][1])})
    \cup ({"shorter"} \X {"sell_open"} \X {NormalBook.ask[1][1]} \X {TRUE}
        \X {Steady(NormalBook.ask[1][1])})

LegInit ==
    /\ \E call \in LegCalls :
          /\ variant = call[1] /\ pc = call[2]
          /\ entry_price = call[3] /\ is_short = call[4]
          /\ price_history = call[5]
    /\ ret_to = "leg_returned"
    /\ orders = NoOrders
    /\ quantity = QUANTITY_V3
    /\ best_bid = None /\ best_ask = None /\ current_price = None
    /\ adjustment_count = 0
    /\ order_id = None
    /\ elapsed = 0 /\ since_last_adj = 0 /\ since_start = 0 /\ since_adj = 0
    /\ leg_result = NoResult
    /\ consecutive_losses = 0
    /\ current_direction = "LONG"
    /\ last_event = "none"
    /\ cancel_target = None
    /\ limit_price = None
    /\ NoSession

\* the steps of the leg itself
LegRun(env) ==
    \/ buy_open \/ buy_poll(env) \/ buy_cancel(env) \/ buy_adjust
    \/ sell_open \/ sell_poll(env) \/ sell_cancel(env) \/ sell_adjust

LegNext == LegRun(HarshEnv) \/ Fill

LegSpec == LegInit /\ [][LegNext]_vars

\* the bot's thread always takes its next step; the exchange need not fill
FairLegSpec == LegInit /\ [][LegNext]_vars /\ WF_vars(LegRun(HarshEnv))

-----------------------------------------------------------------------------
(* One call of get_robust_market_prices, on snapshots drawn from a small set *)

\* prices of the levels of a snapshot: a cent apart around 100.00, and one
\* two per cent away
PriceGrid == {999800, 999900, 1000000, 1000100, 1000200, 1020000}

\* three levels of one side, best price first: bids fall, asks rise
Descending(t) == t[1] > t[2] /\ t[2] > t[3]
Ascending(t) == t[1] < t[2] /\ t[2] < t[3]
Triples == PriceGrid \X PriceGrid \X PriceGrid

\* every level of a side has the same size; 0 is a side of empty levels
SideSizes == {0, 1}
Side(t, size) == [i \in 1..3 |-> <<t[i], size>>]

\* snapshots with three levels per side, the two sides ordered but not
\* necessarily apart: the bids may reach or cross the asks
OracleBooks ==
    {[error |-> FALSE, bid |-> Side(b, bs), ask |-> Side(a, as)] :
        b \in {t \in Triples : Descending(t)}, a \in {t \in Triples : Ascending(t)},
        bs \in SideSizes, as \in SideSizes}

\* a snapshot whose third bid is far below the others:
\* bids 99.98 x 1, 99.50 x 2, 80.00 x 5 and asks 100.02 x 1, 100.50 x 2
OutlierBook ==
    [error |-> FALSE,
     bid |-> <<<<999800, 1>>, <<995000, 2>>, <<800000, 5>>>>,
     ask |-> <<<<1000200, 1>>, <<1005000, 2>>>>]

OracleInit ==
    /\ variant \in {"v3", "shorter"}
    /\ pc = "oracle_call"
    /\ ret_to = "oracle_returned"
    /\ orders = NoOrders
    /\ quantity = IF variant = "v3" THEN QUANTITY_V3 ELSE QUANTITY_SHORTER
    /\ entry_price = None /\ is_short = FALSE
    /\ best_bid = None /\ best_ask = None /\ current_price = None
    /\ adjustment_count = 0
    /\ order_id = None
    /\ elapsed = 0 /\ since_last_adj = 0 /\ since_start = 0 /\ since_adj = 0
    /\ leg_result = NoResult
    /\ price_history = <<>>
    /\ consecutive_losses = 0
    /\ current_direction = "LONG"
    /\ last_event = "none"
    /\ cancel_target = None
    /\ limit_price = None
    /\ NoSession

\* hibachi.get_orderbook answers, or raises
oracle_fetch ==
    /\ pc = "oracle_call"
    /\ orderbook' \in OracleBooks \cup get_orderbook \cup {OutlierBook}
    /\ pc' = "oracle_estimate"
    /\ UNCHANGED <<variant, ret_to, orders, legVars, trackerVars, histVars,
                   filter_args, filter_result, downtrend, cycleVars, reportVars>>

\* the rest of get_robust_market_prices: the pair it returns to its caller
oracle_estimate ==
    /\ pc = "oracle_estimate"
    /\ best_bid' = get_robust_market_prices(orderbook)[1]
    /\ best_ask' = get_robust_market_prices(orderbook)[2]
    /\ orderbook' = NoBook
    /\ pc' = ret_to
    /\ UNCHANGED <<variant, ret_to, orders, quantity, entry_price, is_short,
                   current_price, adjustment_count, order_id, elapsed, since_last_adj,
                   since_start, since_adj, leg_result, trackerVars, histVars,
                   filter_args, filter_result, downtrend, cycleVars, reportVars>>

OracleNext == oracle_fetch \/ oracle_estimate

OracleSpec == OracleInit /\ [][OracleNext]_vars

-----------------------------------------------------------------------------
(* filter_outlier_prices and is_downtrend, called on their own *)

\* no leg and no cycle is under way
AtRest ==
    /\ variant \in {"v3", "shorter"}
    /\ ret_to = "none"
    /\ orders = NoOrders
    /\ quantity = IF variant = "v3" THEN QUANTITY_V3 ELSE QUANTITY_SHORTER
    /\ entry_price = None /\ is_short = FALSE
    /\ best_bid = None /\ best_ask = None /\ current_price = None
    /\ adjustment_count = 0
    /\ order_id = None
    /\ elapsed = 0 /\ since_last_adj = 0 /\ since_start = 0 /\ since_adj = 0
    /\ leg_result = NoResult
    /\ consecutive_losses = 0
    /\ current_direction = "LONG"
    /\ last_event = "none"
    /\ cancel_target = None
    /\ limit_price = None
    /\ balance_before = 0 /\ position_check = "none"
    /\ cycle_outcome = "none" /\ failed_at = "none"
    /\ failed_buys = 0 /\ failed_sells = 0
    /\ cycle_pnl = 0 /\ balance_delta = 0 /\ recorded = 0
    /\ profitable_cycles = 0 /\ losing_cycles = 0
    /\ cycle_details = 0 /\ completed_cycles = 0
    /\ long_cycles = 0 /\ short_cycles = 0 /\ direction_flips = 0
    /\ loss_streak = 0
    /\ recap_printed = FALSE

\* the lists of at most MaxLen values of S
SeqsUpTo(S, MaxLen) == UNION {[1..n -> S] : n \in 0..MaxLen}

\* prices handed to the filter: 90, 100, 101 and 120 dollars
FilterPrices == {900000, 1000000, 1010000, 1200000}

\* the default of filter_outlier_prices (2.0 %) and the value its caller passes (1.5 %)
Deviations == {20, 15}

FilterInit ==
    /\ AtRest
    /\ pc = "filter_call"
    /\ price_history = <<>>
    /\ orderbook = NoBook
    /\ filter_args \in [prices : SeqsUpTo(FilterPrices, MaxPrices),
                         max_deviation_permille : Deviations]
    /\ filter_result = <<>>
    /\ downtrend = FALSE

\* a call of filter_outlier_prices returns
filter_call ==
    /\ pc = "filter_call"
    /\ filter_result' = filter_outlier_prices(filter_args.prices,
                                               filter_args.max_deviation_permille)
    /\ pc' = "filter_returned"
    /\ UNCHANGED <<variant, ret_to, orders, legVars, trackerVars, histVars,
                   orderbook, filter_args, downtrend, cycleVars, reportVars>>

FilterSpec == FilterInit /\ [][filter_call]_vars

\* prices the tracker may hold: 6 to 10 dollars
TrendPrices == {60000, 70000, 80000, 90000, 100000}

TrendInit ==
    /\ AtRest
    /\ pc = "trend_call"
    /\ price_history \in SeqsUpTo(TrendPrices, MaxHistory)
    /\ NoCall

\* a call of is_downtrend returns
trend_call ==
    /\ pc = "trend_call"
    /\ downtrend' = is_downtrend(price_history)
    /\ pc' = "trend_returned"
    /\ UNCHANGED <<variant, ret_to, orders, legVars, trackerVars, histVars,
                   orderbook, filter_args, filter_result, cycleVars, reportVars>>

TrendSpec == TrendInit /\ [][trend_call]_vars

-----------------------------------------------------------------------------
(* Cycle controller and session (main) *)

\* what a cycle that closed its position may have done to the balance, in
\* 1e-8 dollar: a loss of a dollar, of one unit more than 50 cents, of exactly
\* 50 cents, of 25 cents, nothing, a gain of a dollar
CyclePnls == {0 - Dollar, 0 - Dollar \div 2 - 1, 0 - Dollar \div 2, 0 - Dollar \div 4, 0, Dollar}

\* the account's balance when a cycle starts
StartBalance == 10 * Dollar

\* "Loss greater than 50 cents"
is_loss(pnl) == pnl < 0 - Dollar \div 2

\* a tracker that counts a cycle of exactly -0.50 as a loss
record_loss_at_threshold(losses, pnl) == IF pnl <= 0 - Dollar \div 2 THEN losses + 1 ELSE 0

\* v3 MarketTrendTracker.record_cycle_result: the new consecutive_losses
record_cycle_result(losses, pnl) == IF is_loss(pnl) THEN losses + 1 ELSE 0

\* a tracker that asks for a cooldown one loss later
cooldown_after_four(losses) == losses >= 4

\* a tracker that asks for a cooldown two losses later
cooldown_after_five(losses) == losses >= 5

\* v3 MarketTrendTracker.should_cooldown
should_cooldown(losses) == losses >= 3

\* a cooldown that leaves the loss counter as it is
cooldown_keeps_count(losses) == losses

\* v3 MarketTrendTracker.do_cooldown: consecutive_losses after the pause
do_cooldown(losses) == 0

\* a tracker that never changes direction
keep_direction(direction) == direction

\* shorter MarketDirectionTracker.flip_direction
flip_direction(direction) == IF direction = "LONG" THEN "SHORT" ELSE "LONG"

\* a caller that takes every returned leg for a filled one
leg_assumed_filled(result) == TRUE

\* the caller's test of a leg's result ("if not buy_success" / "if not sell_success")
leg_succeeded(result) == result[1]

\* the leg that opens / closes the position of the cycle now run
opening_leg == IF variant = "shorter" /\ current_direction = "SHORT" THEN "sell_open" ELSE "buy_open"
closing_leg == IF variant = "shorter" /\ current_direction = "SHORT" THEN "buy_open" ELSE "sell_open"

\* an add_cycle that counts a cycle without gain or loss in neither counter
add_cycle_skipping_zero(success, pnl) ==
    IF ~success \/ pnl = 0 THEN <<0, 0>>
    ELSE IF pnl > 0 THEN <<1, 0>> ELSE <<0, 1>>

\* TradingStats.add_cycle, called for completed cycles only: the increments
\* of <<profitable_cycles, losing_cycles>>
add_cycle(success, pnl) ==
    IF ~success THEN <<0, 0>>
    ELSE IF pnl > 0 THEN <<1, 0>> ELSE <<0, 1>>

\* a tracker that reports a flip for a cycle of exactly -0.50 as well
flipped_at_threshold(pnl) == pnl <= 0 - Dollar \div 2

\* shorter MarketDirectionTracker.record_cycle_result: its return value
flipped(pnl) == is_loss(pnl)

\* counters that take every cycle, failed ones too, for a completed one
cycle_counted_always(outcome, pnl) ==
    [details    |-> 1,
     completed  |-> IF variant = "v3" THEN 1 ELSE 0,
     long       |-> IF variant = "shorter" /\ current_direction = "LONG" THEN 1 ELSE 0,
     short      |-> IF variant = "shorter" /\ current_direction # "LONG" THEN 1 ELSE 0,
     profitable |-> IF pnl > 0 THEN 1 ELSE 0,
     losing     |-> IF pnl > 0 THEN 0 ELSE 1,
     flips      |-> IF variant = "shorter" /\ pnl < 0 - Dollar \div 2 THEN 1 ELSE 0]

\* what one cycle adds to the counters of the statistics: add_cycle is called
\* by a completed cycle only (v3 with success = True, shorter with the
\* cycle's direction), and main counts a flip after a completed cycle
CycleCounts(outcome, pnl) ==
    LET called == outcome = "completed"
        one(b) == IF called /\ b THEN 1 ELSE 0
    IN  [details    |-> one(TRUE),
         completed  |-> one(variant = "v3"),
         long       |-> one(variant = "shorter" /\ current_direction = "LONG"),
         short      |-> one(variant = "shorter" /\ current_direction # "LONG"),
         profitable |-> add_cycle(called, pnl)[1],
         losing     |-> add_cycle(called, pnl)[2],
         flips      |-> one(variant = "shorter" /\ flipped(pnl))]

\* what the statistics and main see of the cycle now run or last run
Report(outcome, at, buys, sells, pnl, delta, calls) ==
    /\ cycle_outcome' = outcome /\ failed_at' = at
    /\ failed_buys' = buys /\ failed_sells' = sells
    /\ cycle_pnl' = pnl /\ balance_delta' = delta /\ recorded' = calls
    /\ profitable_cycles' = CycleCounts(outcome, pnl).profitable
    /\ losing_cycles' = CycleCounts(outcome, pnl).losing
    /\ cycle_details' = CycleCounts(outcome, pnl).details
    /\ completed_cycles' = CycleCounts(outcome, pnl).completed
    /\ long_cycles' = CycleCounts(outcome, pnl).long
    /\ short_cycles' = CycleCounts(outcome, pnl).short
    /\ direction_flips' = CycleCounts(outcome, pnl).flips

\* what the fills of a long position add to the balance when no fee is charged
FillPnl ==
    IF closing_leg = "sell_open" /\ leg_succeeded(leg_result)
    THEN {(leg_result[2] - entry_price) * quantity}
    ELSE {}

\* main up to the session loop: the starting balance is read and checked
main_start ==
    /\ pc = "main"
    /\ \E account \in {"ok", "low", "error"} :
         pc' = IF account = "ok" THEN "main_loop" ELSE "exited"
    /\ UNCHANGED <<variant, ret_to, orders, legVars, trackerVars, histVars, sessionVars>>

\* one turn of the session loop up to the call of the opening leg: end-time
\* test, cooldown (v3), balance check, then the cycle up to its first leg
main_loop ==
    /\ pc = "main_loop"
    /\ \E expired \in BOOLEAN, account \in {"ok", "low", "error"},
          before \in {"ok", "error"}, quote \in fresh_prices :
         IF expired \/ (~(variant = "v3" /\ should_cooldown(consecutive_losses)) /\ account = "low")
         THEN \* the loop ends: end_time passed, or "Balance too low - stopping"
              /\ pc' = "finalize"
              /\ UNCHANGED <<ret_to, entry_price, is_short, consecutive_losses,
                             cycleVars, reportVars>>
         ELSE IF variant = "v3" /\ should_cooldown(consecutive_losses)
         THEN \* do_cooldown, then "continue"
              /\ consecutive_losses' = do_cooldown(consecutive_losses)
              /\ loss_streak' = 0
              /\ pc' = "main_loop"
              /\ UNCHANGED <<ret_to, entry_price, is_short, cycleVars, cycle_outcome,
                             failed_at, failed_buys, failed_sells, cycle_pnl,
                             profitable_cycles, losing_cycles, countVars,
                             balance_delta, recorded, recap_printed>>
         ELSE IF opening_leg = "sell_open" /\ ~Truthy(quote[1])
         THEN \* run_short_cycle: "Could not get market prices"; main waits and loops
              /\ pc' = "main_loop"
              /\ Report("failed", "quote", 0, 0, 0, 0, 0)
              /\ balance_before' = 0 /\ position_check' = "none"
              /\ UNCHANGED <<ret_to, entry_price, is_short, consecutive_losses,
                             loss_streak, recap_printed>>
         ELSE /\ pc' = opening_leg
              /\ ret_to' = "opened"
              \* run_short_cycle passes the ask it has just read as entry price
              /\ entry_price' = IF opening_leg = "sell_open" THEN quote[2] ELSE None
              /\ is_short' = (opening_leg = "sell_open")
              /\ Report("running", "none", 0, 0, 0, 0, 0)
              \* "balance_before = 0" when the balance cannot be read
              /\ balance_before' = IF before = "ok" THEN StartBalance ELSE 0
              /\ position_check' = "none"
              /\ UNCHANGED <<consecutive_losses, loss_streak, recap_printed>>
    /\ UNCHANGED <<variant, orders, quantity, best_bid, best_ask, current_price,
                   adjustment_count, order_id, elapsed, since_last_adj, since_start,
                   since_adj, leg_result, price_history, current_direction, histVars,
                   localVars>>

\* the cycle returns to the session loop (which waits before its next
\* turn): the locals of the cycle and of its legs are gone
cycle_returns ==
    /\ pc' = "main_loop"
    /\ ret_to' = "none"
    /\ orders' = NoOrders
    /\ entry_price' = None /\ is_short' = FALSE
    /\ best_bid' = None /\ best_ask' = None /\ current_price' = None
    /\ adjustment_count' = 0
    /\ order_id' = None
    /\ elapsed' = 0 /\ since_last_adj' = 0 /\ since_start' = 0 /\ since_adj' = 0
    /\ leg_result' = NoResult
    /\ last_event' = "none"
    /\ cancel_target' = None
    /\ limit_price' = None
    /\ balance_before' = 0
    /\ UNCHANGED <<variant, quantity, price_history, localVars, recap_printed>>

\* the counter a cycle increments when the leg that ran from first_pc failed
FailedLeg(first_pc) ==
    IF first_pc = "buy_open" THEN <<failed_buys + 1, failed_sells>>
    ELSE <<failed_buys, failed_sells + 1>>

\* the counter a cycle increments when the position is not found after the
\* opening leg: failed_buys in v3 and run_long_cycle, none in run_short_cycle
PositionNotFound ==
    IF opening_leg = "buy_open" THEN <<failed_buys + 1, failed_sells>>
    ELSE <<failed_buys, failed_sells>>

\* the cycle after its opening leg returned: result test, position check,
\* wait (v3), call of the closing leg
opened ==
    /\ pc = "opened"
    /\ IF ~leg_succeeded(leg_result)
       THEN /\ Report("failed", "open", FailedLeg(opening_leg)[1], FailedLeg(opening_leg)[2],
                      0, 0, 0)
            /\ position_check' = "none"
            /\ cycle_returns
       ELSE \E account \in {"position", "no_position", "error"} :
            /\ position_check' = account
            /\ IF account = "no_position"
               THEN /\ Report("failed", "verify", PositionNotFound[1], PositionNotFound[2],
                              0, 0, 0)
                    /\ cycle_returns
               ELSE \* a position was found, or the query raised and the cycle goes on
                    /\ pc' = closing_leg
                    /\ ret_to' = "closed"
                    /\ entry_price' = IF closing_leg = "sell_open" THEN leg_result[2] ELSE None
                    /\ is_short' = FALSE
                    /\ UNCHANGED <<variant, orders, quantity, best_bid, best_ask,
                                   current_price, adjustment_count, order_id, elapsed,
                                   since_last_adj, since_start, since_adj, leg_result,
                                   price_history, histVars, localVars, balance_before,
                                   cycle_outcome, failed_at, failed_buys, failed_sells,
                                   cycle_pnl, profitable_cycles, losing_cycles, countVars,
                                   balance_delta, recorded, recap_printed>>
    /\ UNCHANGED <<consecutive_losses, current_direction, loss_streak>>

\* the cycle after its closing leg returned: result test, cycle P&L from the
\* balance, add_cycle, and the tracker's record of the P&L (v3 in the cycle,
\* inside the try block that reads the balance and the trades; shorter in main)
closed ==
    /\ pc = "closed"
    /\ IF ~leg_succeeded(leg_result)
       THEN /\ Report("failed", "close", FailedLeg(closing_leg)[1], FailedLeg(closing_leg)[2],
                      0, 0, 0)
            /\ UNCHANGED <<consecutive_losses, current_direction, loss_streak>>
       ELSE \E delta \in CyclePnls \cup FillPnl,
               reply \in {"ok", "balance_error"}
                         \cup (IF variant = "v3" THEN {"trades_error"} ELSE {}) :
            LET pnl == IF reply = "ok" THEN (StartBalance + delta) - balance_before ELSE 0
                calls == IF variant = "shorter" \/ reply = "ok" THEN 1 ELSE 0
            IN  /\ consecutive_losses' =
                      IF variant = "v3" /\ reply = "ok"
                      THEN record_cycle_result(consecutive_losses, pnl)
                      ELSE consecutive_losses
                /\ current_direction' =
                      IF variant = "shorter" /\ is_loss(pnl)
                      THEN flip_direction(current_direction)
                      ELSE current_direction
                /\ loss_streak' =
                      IF variant = "v3" /\ pnl < 0 - Dollar \div 2
                      THEN Min(loss_streak + 1, MaxStreak)
                      ELSE 0
                /\ Report("completed", "none", failed_buys, failed_sells, pnl, delta, calls)
    /\ position_check' = "none"
    /\ cycle_returns

\* after the loop: the closing balance is read (errors ignored) and the recap printed
finalize ==
    /\ pc = "finalize"
    /\ pc' = "done"
    /\ recap_printed' = TRUE
    /\ UNCHANGED <<variant, ret_to, orders, legVars, trackerVars, histVars,
                   localVars, cycleVars, cycle_outcome, failed_at, failed_buys,
                   failed_sells, cycle_pnl, profitable_cycles, losing_cycles, countVars,
                   balance_delta, recorded, loss_streak>>

Init ==
    /\ variant \in {"v3", "shorter"}
    /\ pc = "main"
    /\ ret_to = "none"
    /\ orders = NoOrders
    /\ quantity = IF variant = "v3" THEN QUANTITY_V3 ELSE QUANTITY_SHORTER
    /\ entry_price = None /\ is_short = FALSE
    /\ best_bid = None /\ best_ask = None /\ current_price = None
    /\ adjustment_count = 0
    /\ order_id = None
    /\ elapsed = 0 /\ since_last_adj = 0 /\ since_start = 0 /\ since_adj = 0
    /\ leg_result = NoResult
    /\ price_history = <<>>
    /\ consecutive_losses = 0
    /\ current_direction = "LONG"
    /\ last_event = "none"
    /\ cancel_target = None
    /\ limit_price = None
    /\ NoSession

Next ==
    \/ main_start \/ main_loop \/ opened \/ closed \/ finalize
    \/ LegRun(MildEnv) \/ Fill

Spec == Init /\ [][Next]_vars

-----------------------------------------------------------------------------
(* The session as its counters see it: every cycle taken by its result *)

TallyInit ==
    /\ AtRest
    /\ pc = "tally"
    /\ price_history = <<>>
    /\ NoCall

\* one turn of main's loop, the cycle reduced to what it returns and to what
\* it does to the statistics and the tracker: cooldown (v3), or a cycle that
\* fails at one of its exits, or a cycle that completes with the balance read
\* or not
tally_turn ==
    /\ pc = "tally"
    /\ cycle_details + failed_buys + failed_sells < MaxCycles
    /\ IF variant = "v3" /\ should_cooldown(consecutive_losses)
       THEN /\ consecutive_losses' = do_cooldown(consecutive_losses)
            /\ UNCHANGED <<current_direction, reportVars>>
       ELSE \E outcome \in {"failed", "completed"}, at \in {"quote", "open", "verify", "close"},
               delta \in CyclePnls, reply \in {"ok", "balance_error"} :
            LET pnl == IF outcome = "completed" /\ reply = "ok" THEN delta ELSE 0
                failed == IF outcome = "completed" \/ at = "quote"
                          THEN <<failed_buys, failed_sells>>
                          ELSE IF at = "open" THEN FailedLeg(opening_leg)
                          ELSE IF at = "verify" THEN PositionNotFound
                          ELSE FailedLeg(closing_leg)
                counts == CycleCounts(outcome, pnl)
            IN  \* only run_short_cycle reads a quote before its first leg
                /\ (outcome = "failed" /\ at = "quote") => opening_leg = "sell_open"
                /\ cycle_outcome' = outcome
                /\ failed_at' = IF outcome = "failed" THEN at ELSE "none"
                /\ failed_buys' = failed[1] /\ failed_sells' = failed[2]
                /\ cycle_pnl' = pnl
                /\ cycle_details' = cycle_details + counts.details
                /\ completed_cycles' = completed_cycles + counts.completed
                /\ long_cycles' = long_cycles + counts.long
                /\ short_cycles' = short_cycles + counts.short
                /\ profitable_cycles' = profitable_cycles + counts.profitable
                /\ losing_cycles' = losing_cycles + counts.losing
                /\ direction_flips' = direction_flips + counts.flips
                /\ consecutive_losses' =
                      IF variant = "v3" /\ outcome = "completed" /\ reply = "ok"
                      THEN record_cycle_result(consecutive_losses, pnl)
                      ELSE consecutive_losses
                /\ current_direction' =
                      IF variant = "shorter" /\ outcome = "completed" /\ is_loss(pnl)
                      THEN flip_direction(current_direction)
                      ELSE current_direction
                /\ UNCHANGED <<balance_delta, recorded, loss_streak, recap_printed>>
    /\ UNCHANGED <<variant, pc, ret_to, orders, legVars, price_history, histVars,
                   localVars, cycleVars>>

TallySpec == TallyInit /\ [][tally_turn]_vars

-----------------------------------------------------------------------------
(* Properties of the order lifecycle *)

Resting == {o \in OrderIds : orders[o] = "open"}
PollPcs == {"buy_poll", "sell_poll"}
OpenPcs == {"buy_open", "sell_open"}
AdjustPcs == {"buy_adjust", "sell_adjust"}

\* steps in which the leg calls place_limit_order (the call is reached only
\* when the quote has a bid and pricing did not raise)
FirstPlacement == pc \in OpenPcs /\ last_event' \in {"placed", "rejected"}
Replacement == pc \in AdjustPcs /\ last_event' \in {"placed", "rejected"}
InitialRejected == pc \in OpenPcs /\ last_event' = "rejected"
ReplacementRejected == pc \in AdjustPcs /\ last_event' = "rejected"

\* C1: in every reachable state of a leg at most one order placed by the leg
\* is resting on the exchange.
C1_AtMostOneResting == Cardinality(Resting) <= 1

\* C2: every place_limit_order call of a leg after the first comes after a
\* cancel_order attempt, made since the last successful placement, on the order
\* placed last (the one order_id names).
C2_CancelBeforeReplace ==
    [][Replacement => (cancel_target # None /\ cancel_target = order_id)]_vars

\* a replacement was placed by an adjustment that followed a failed one
C2_ReplacedAfterRetry ==
    /\ pc \in PollPcs /\ last_event = "placed"
    /\ adjustment_count = 2 /\ order_id = 2 /\ ret_to = "leg_returned"

\* C3: the closing leg of a cycle calls place_limit_order for its first order
\* only after the opening leg returned success, which it does only for an
\* order the gateway reported filled; after a failed opening leg the cycle
\* starts no closing leg.
C3_CloseAfterOpenFilled ==
    [][/\ (FirstPlacement /\ ret_to = "closed")
            => (leg_result[1] /\ orders[leg_result[3]] = "filled")
       /\ (pc = "opened" /\ ~leg_result[1]) => pc' = "main_loop"]_vars

\* the closing buy leg of a SHORT cycle has its first order resting
C3_ShortCloseResting ==
    /\ variant = "shorter" /\ current_direction = "SHORT"
    /\ ret_to = "closed" /\ pc = "buy_poll"
    /\ last_event = "placed" /\ adjustment_count = 0

\* C4: a leg whose price refresh keeps failing during adjustment stops and
\* reports failure (the only way a leg comes to report failure).
C4_RefreshFailureAbandons ==
    ([]<>(pc \in PollPcs /\ last_event = "no_quote"))
        => <>(pc = "leg_returned" /\ leg_result = Failure)

\* a leg has reported failure with no refresh failed: its first order was rejected
C4_FailureAtFirstPlacement ==
    /\ pc = "leg_returned" /\ leg_result = Failure
    /\ last_event = "rejected" /\ adjustment_count = 0

\* C5 as stated: a rejected placement, initial or replacement, makes the leg
\* return failure.
C5_RejectionAborts ==
    [][(InitialRejected \/ ReplacementRejected)
          => (pc' = ret_to /\ leg_result' = Failure)]_vars

\* C5 as the code has it: a rejected initial order makes the leg return
\* failure; after a rejected replacement the leg keeps polling the order it
\* placed last; a failed leg sends the session back to its loop.
C5_RejectionHandling ==
    [][/\ InitialRejected => (pc' = ret_to /\ leg_result' = Failure)
       /\ ReplacementRejected
            => (pc' \in PollPcs /\ leg_result' = NoResult /\ order_id' = order_id)
       /\ (pc \in {"opened", "closed"} /\ leg_result = Failure) => pc' = "main_loop"]_vars

\* inside a cycle of the session, a replacement was rejected and the leg polls on
C5_PollingAfterRejection ==
    /\ ret_to \in {"opened", "closed"}
    /\ pc \in PollPcs /\ last_event = "rejected" /\ adjustment_count > 0

\* C6: no exception leaves a leg.
C6_NoException == pc # "crashed"

\* C7 as stated: a sell replacement priced once the leg has been open for
\* 1200 s is priced at the fresh best ask plus one tick.
C7_ForcedExitByClock ==
    [][(Replacement /\ pc = "sell_adjust" /\ since_start >= max_wait_time)
          => current_price' = best_ask' + tick_size]_vars

\* C7 as the code has it: the 1200 s are the elapsed time the loop iteration
\* measured at its poll, before the cancel and the re-quote.
C7_ForcedExitByMeasuredWait ==
    [][(Replacement /\ pc = "sell_adjust" /\ elapsed >= max_wait_time)
          => current_price' = best_ask' + tick_size]_vars

\* a forced-exit replacement rests, in the band with the widest offset
C7_ForcedExitResting ==
    /\ pc = "sell_poll" /\ last_event = "placed"
    /\ elapsed >= max_wait_time /\ adjustment_count = 1
    /\ potential_pnl(is_short, entry_price, best_bid, best_ask, quantity) >= 3 * Dollar
    /\ current_price = best_ask + tick_size

\* C8: a buy replacement priced after more than 20 minutes in the leg is
\* priced one tick below the best bid.
C8_BuyForcedExit ==
    [][(Replacement /\ pc = "buy_adjust" /\ elapsed > max_wait_time)
          => current_price' = best_bid' - tick_size]_vars

\* C9: a sell leg's poll that finds the order unfilled starts an adjustment
\* exactly when the adjustment interval has passed since the last price-set
\* or the 1200 s deadline is reached.
C9_AdjustIffDue ==
    [][(pc = "sell_poll" /\ last_event' = "unfilled")
          => ((pc' = "sell_cancel")
                <=> (since_last_adj' >= sell_adjustment_interval
                       \/ elapsed' >= max_wait_time))]_vars

\* C10: every leg eventually returns or raises, filled or not.
C10_LegReturns == <>(pc \in {"leg_returned", "crashed"})

-----------------------------------------------------------------------------
(* Properties of the cycle controller and the session *)

\* C11: after a filled opening leg, a position query that does not show the
\* position (the symbol is absent, or the query itself fails) makes the cycle
\* report failure and return without starting the closing leg.
C11_UnverifiedPositionFails ==
    [][(pc = "opened" /\ leg_result[1] /\ position_check' \in {"no_position", "error"})
          => (cycle_outcome' = "failed" /\ pc' = "main_loop")]_vars

\* C12: a failed cycle has incremented exactly one of failed_buys and
\* failed_sells, and the counter of the closing leg's side exactly when it was
\* the closing leg that failed.
C12_OneCounterPerFailedCycle ==
    cycle_outcome = "failed"
        => /\ failed_buys + failed_sells = 1
           /\ (failed_at = "close")
                <=> (IF closing_leg = "sell_open" THEN failed_sells = 1 ELSE failed_buys = 1)

\* the steps and states of a cycle, from the call of its opening leg on
CyclePcs == OpenPcs \cup LegPcs \cup {"opened", "closed"}

C14_NoCycleBeforeCooldown ==
    (variant = "v3" /\ consecutive_losses >= 3)
        => (pc \notin CyclePcs /\ pc \in {"main_loop", "finalize", "done"})

\* the third loss in a row has just been recorded
C14_CooldownPending ==
    /\ variant = "v3" /\ pc = "main_loop"
    /\ consecutive_losses = 3 /\ loss_streak = 3

\* C15: a call record_cycle_result(pnl) leaves the counter one higher when pnl
\* is below -0.50 and at 0 otherwise, at exactly -0.50 too.
C15_RecordCycleResult ==
    [][(variant = "v3" /\ pc = "closed" /\ recorded' = 1)
          => consecutive_losses' = IF cycle_pnl' < 0 - Dollar \div 2
                                   THEN consecutive_losses + 1 ELSE 0]_vars

\* a loss one unit beyond 50 cents was counted as the second in a row
C15_SecondLossCounted ==
    /\ variant = "v3" /\ pc = "main_loop" /\ recorded = 1
    /\ cycle_pnl = 0 - Dollar \div 2 - 1 /\ consecutive_losses = 2

C17_PnlIsBalanceDelta ==
    cycle_outcome = "completed" => cycle_pnl = balance_delta

\* C18: a completed cycle (one add_cycle has recorded) has called the
\* tracker's record_cycle_result exactly once.
C18_CompletedCycleRecordedOnce ==
    cycle_outcome = "completed" => recorded = 1

\* C19: a session that entered its trading loop does not end, by return or
\* by an exception, without print_recap having run.
C19_RecapBeforeExit ==
    pc \in {"done", "crashed"} => recap_printed

\* C20: for a snapshot with three levels per side get_robust_market_prices
\* returns (None, None) or a pair with bid below ask.
C20_NeverInverted ==
    [][(pc = "oracle_estimate" /\ ~orderbook.error
          /\ Len(orderbook.bid) >= 3 /\ Len(orderbook.ask) >= 3)
          => \/ (best_bid' = None /\ best_ask' = None)
             \/ (best_bid' # None /\ best_ask' # None /\ best_bid' < best_ask')]_vars

\* C21: when the gateway call fails, or the book has no bids or no asks,
\* get_robust_market_prices returns (None, None).
C21_EmptySideUnavailable ==
    [][(pc = "oracle_estimate"
          /\ (orderbook.error \/ orderbook.bid = <<>> \/ orderbook.ask = <<>>))
          => (best_bid' = None /\ best_ask' = None)]_vars

\* C22: for bids 99.98 x 1, 99.50 x 2, 80.00 x 5 and asks 100.02 x 1,
\* 100.50 x 2 the returned bid lies among the bids that are not outliers
\* (99.50 to 99.98) and below the returned ask.
C22_OutlierExcluded ==
    [][(pc = "oracle_estimate" /\ orderbook = OutlierBook)
          => /\ best_bid' # None /\ best_ask' # None
             /\ best_bid' >= 995000 /\ best_bid' <= 999800
             /\ best_bid' < best_ask']_vars

\* every price of the list is further from the list's median than the
\* allowed share of the median
AllDeviate(args) ==
    \A i \in 1..Len(args.prices) :
        Abs(args.prices[i] - median(args.prices)) * 1000
            > median(args.prices) * args.max_deviation_permille

\* C23 as stated: filter_outlier_prices returns a non-empty list for a
\* non-empty list, and the list of the first price alone when every price
\* deviates from the median by more than the allowed percentage.
C23_FirstPriceWhenAllDeviate ==
    [][(pc = "filter_call" /\ filter_args.prices # <<>>)
          => /\ filter_result' # <<>>
             /\ AllDeviate(filter_args) => filter_result' = <<filter_args.prices[1]>>]_vars

\* C23: filter_outlier_prices returns a non-empty list for a non-empty list:
\* a list of one or two prices as it is, and for a longer list whose prices
\* all deviate from the median by more than the allowed percentage the list
\* of the first price alone.
C23_NeverEmpty ==
    [][(pc = "filter_call" /\ filter_args.prices # <<>>)
          => /\ filter_result' # <<>>
             /\ Len(filter_args.prices) <= 2 => filter_result' = filter_args.prices
             /\ (Len(filter_args.prices) >= 3 /\ AllDeviate(filter_args))
                    => filter_result' = <<filter_args.prices[1]>>]_vars

\* a list of four prices, none near the median, came back as its first price
C23_FellBackToFirst ==
    /\ pc = "filter_returned"
    /\ Len(filter_args.prices) = 4
    /\ AllDeviate(filter_args)
    /\ filter_result = <<filter_args.prices[1]>>

\* C28: is_downtrend() is false with fewer than 3 price points; with 3 or
\* more it is true exactly when every consecutive pair among the last 5
\* points is strictly decreasing.
C28_DowntrendIffAllPairsFall ==
    [][pc = "trend_call"
          => downtrend' =
                (/\ Len(price_history) >= 3
                 /\ \A i \in 2..Len(price_history) :
                        i > Len(price_history) - 4
                            => price_history[i] < price_history[i - 1])]_vars

\* is_downtrend() answered true for the points 10, 9, 8, 7, 6
C28_FiveFallingPoints ==
    /\ pc = "trend_returned"
    /\ price_history = <<100000, 90000, 80000, 70000, 60000>>
    /\ downtrend

\* the closing sell prices this order from the potential P&L bands: the first
\* order of the leg, or a replacement before the maximum wait
BandPriced ==
    /\ ~is_short
    /\ \/ (pc = "sell_open" /\ FirstPlacement)
       \/ (pc = "sell_adjust" /\ Replacement /\ elapsed < max_wait_time)

\* C24: with a potential P&L of 3.00 or more the closing sell of a long
\* position is priced max(1.50 - 0.15 * k, 0.50) above the best ask at
\* adjustment count k: 1.50 at count 0, 1.05 at count 3.
C24_TopBandSchedule ==
    [][(BandPriced /\ (best_ask' - entry_price) * quantity >= 3 * Dollar)
          => current_price' = best_ask' + Max(15000 - 1500 * adjustment_count', 5000)]_vars

\* C25: the first order of a closing sell is priced above the best ask by
\* the offset of its potential P&L band: 1.50 from 3.00, 0.80 from 1.50,
\* 0.30 from 0.50, 0.20 (and at least entry + 0.10) from 0.00, 0.10 from
\* -1.00, 0.05 below -1.00.
C25_InitialBandTable ==
    [][(pc = "sell_open" /\ FirstPlacement /\ ~is_short)
          => LET pnl == (best_ask' - entry_price) * quantity
             IN  current_price' =
                   IF pnl >= 3 * Dollar THEN best_ask' + 15000
                   ELSE IF pnl >= (3 * Dollar) \div 2 THEN best_ask' + 8000
                   ELSE IF pnl >= Dollar \div 2 THEN best_ask' + 3000
                   ELSE IF pnl >= 0 THEN Max(best_ask' + 2000, entry_price + 1000)
                   ELSE IF pnl >= 0 - Dollar THEN best_ask' + 1000
                   ELSE best_ask' + 500]_vars

\* the last five points of the history, three at least, fall one after another
Falls(history) ==
    /\ Len(history) >= 3
    /\ \A i \in 2..Len(history) :
           i > Len(history) - 4 => history[i] < history[i - 1]

\* C27: the first order of a buy leg is priced 30 ticks below the best bid
\* when the tracker, holding the bid just read, reports a downtrend, and 20
\* ticks below it otherwise.
C27_FirstBuyOffset ==
    [][(pc = "buy_open" /\ FirstPlacement)
          => current_price' = best_bid' - (IF Falls(price_history') THEN 3000 ELSE 2000)]_vars

\* a buy leg has placed its first order 0.30 below the bid in a downtrend
C27_DowntrendOffset ==
    /\ pc = "buy_poll" /\ last_event = "placed" /\ adjustment_count = 0
    /\ Falls(price_history)
    /\ current_price = best_bid - 3000

\* C30: the v3 buy leg places no order while the tracker reports a downtrend.
C30_NoBuyInDowntrend ==
    [][(variant = "v3" /\ pc = "buy_open" /\ Falls(price_history'))
          => ~FirstPlacement]_vars

\* every offset the closing-leg bands give an order at adjustment count k,
\* whatever the potential P&L: the first order's offsets at count 0, the
\* decay schedules started from the first order's offset or from the
\* replacement's own start, and the forced exit's single tick
ClosingOffsets(k) ==
    (IF k = 0 THEN {15000, 8000, 3000, 2000, 1000, 500} ELSE {})
    \cup {Max(15000 - 1500 * k, 5000), Max(12000 - 1500 * k, 5000),
          Max(8000 - 1000 * k, 3000), Max(6000 - 1000 * k, 3000),
          Max(3000 - 500 * k, 1500),
          Max(2000 - 300 * k, 500), Max(1500 - 300 * k, 500),
          IF k <= 3 THEN 1000 - 200 * k ELSE 200,
          500, 100}

\* the buy leg that closes the short position of a SHORT cycle
ShortClose == variant = "shorter" /\ current_direction = "SHORT" /\ ret_to = "closed"

\* C26: every order of the buy leg that closes a SHORT cycle is priced below
\* the best bid by an offset of the closing-leg bands at its adjustment count.
C26_ShortCloseByBands ==
    [][(ShortClose /\ (FirstPlacement \/ Replacement))
          => best_bid' - current_price' \in ClosingOffsets(adjustment_count')]_vars

\* C29: when a v3 cycle completes with its closing fill above its opening
\* fill and the balance has grown by exactly the fills' difference (no fee),
\* add_cycle counts the cycle as profitable and not as losing.
C29_ProfitableCycleCounted ==
    [][(variant = "v3" /\ pc = "closed" /\ cycle_outcome' = "completed"
          /\ leg_result[2] > entry_price
          /\ balance_delta' = (leg_result[2] - entry_price) * quantity)
          => (profitable_cycles' = 1 /\ losing_cycles' = 0)]_vars

-----------------------------------------------------------------------------
(* Properties of the orders a leg submits and of the result it returns *)

BuyPcs == {"buy_open", "buy_adjust"}
SellPcs == {"sell_open", "sell_adjust"}

\* C31: every order a buy leg submits, first or replacement, is priced
\* strictly below the best bid read for that placement.
C31_BuyBelowBid ==
    [][(pc \in BuyPcs /\ (FirstPlacement \/ Replacement))
          => current_price' < best_bid']_vars

\* C32: every order a sell leg submits, first or replacement, in any band
\* and under forced exit, is priced at least 0.01 above the best ask read
\* for that placement.
C32_SellAboveAsk ==
    [][(pc \in SellPcs /\ (FirstPlacement \/ Replacement))
          => current_price' >= best_ask' + 100]_vars

\* a replacement sell rests one tick above the ask after the maximum wait
C32_ForcedExitOneTick ==
    /\ pc = "sell_poll" /\ last_event = "placed"
    /\ adjustment_count >= 1 /\ elapsed >= max_wait_time
    /\ current_price = best_ask + 100

\* the orders of the leg the exchange has filled
Filled == {o \in OrderIds : orders[o] = "filled"}

\* C33: the quantity filled over all orders a leg placed never exceeds the
\* quantity the leg was asked for.
C33_NoOverfill == Cardinality(Filled) * quantity <= quantity

\* C34: the price a leg returns with success is the price the order it saw
\* filled was submitted at.
C34_ReturnsLimitPrice ==
    [][(pc \in PollPcs /\ last_event' = "filled") => leg_result'[2] = limit_price]_vars

\* C35: a leg returns failure only from its first quote or first
\* placement; once its first order is accepted, every return is a success
\* seen by a poll.
C35_FailureOnlyAtOpen ==
    [][(pc \in OpenPcs \cup LegPcs /\ pc' = ret_to)
          => IF leg_result' # NoResult /\ leg_result'[1]
             THEN pc \in PollPcs
             ELSE pc \in OpenPcs /\ last_event' \in {"no_quote", "rejected"}
                  /\ leg_result' = Failure]_vars

\* a leg returned success after a replacement of its had been rejected
C35_SuccessAfterRejection ==
    /\ pc = ret_to /\ leg_result # NoResult /\ leg_result[1]
    /\ adjustment_count >= 1
    /\ leg_result[2] # limit_price

-----------------------------------------------------------------------------
(* Properties of the session's counters *)

\* C36: (v3) consecutive_losses is between 0 and 3 in every state of a session.
C36_LossesAtMostThree == variant = "v3" => consecutive_losses \in 0..3

\* the session ended with three losses in a row and no cooldown taken
C36_EndedAtThree == variant = "v3" /\ pc = "done" /\ consecutive_losses = 3

\* the six counters add_cycle maintains
CycleCounters == <<cycle_details, completed_cycles, long_cycles, short_cycles,
                   profitable_cycles, losing_cycles>>

\* C37: after any sequence of cycles completed_cycles (v3) or long_cycles +
\* short_cycles (shorter) equals profitable_cycles + losing_cycles and the
\* number of entries of cycle_details, and a failed cycle changes none of them.
C37_CountersConserved ==
    [][/\ (variant = "v3" => completed_cycles' = cycle_details')
       /\ (variant = "shorter" => long_cycles' + short_cycles' = cycle_details')
       /\ profitable_cycles' + losing_cycles' = cycle_details'
       /\ (pc = "tally" /\ cycle_outcome' = "failed") => CycleCounters' = CycleCounters]_vars

\* a failed cycle after a LONG, a SHORT and a cycle without gain
C37_FailedAfterBothDirections ==
    /\ variant = "shorter" /\ pc = "tally" /\ cycle_outcome = "failed"
    /\ long_cycles >= 1 /\ short_cycles >= 1
    /\ profitable_cycles >= 1 /\ losing_cycles >= 2

C39_FailedCycleFrame ==
    [][cycle_outcome' = "failed"
          => /\ consecutive_losses' = consecutive_losses
             /\ current_direction' = current_direction
             /\ cycle_details' = 0 /\ recorded' = 0]_vars

\* a closing leg failed after two losses in a row: the streak is still two
C39_FailedCloseKeepsStreak ==
    /\ variant = "v3" /\ pc = "main_loop"
    /\ cycle_outcome = "failed" /\ failed_at = "close"
    /\ consecutive_losses = 2 /\ loss_streak = 2

====
